---- MODULE Spec2Model ----
(***************************************************************************)
(* Model of the ordered symbol table of package search: RedBlackBST, a     *)
(* left-leaning red-black binary search tree (src/search/red_black_bst.go).*)
(*                                                                         *)
(* A tree is a value: Nil for the absent node, a record for a node.  The   *)
(* Go code edits nodes in place and returns the new subtree root; since no *)
(* node is shared, that is the same as building the new subtree value.     *)
(* A nil dereference (a Go run-time panic) is the value Panic, which every *)
(* helper passes on to its caller.                                         *)
(*                                                                         *)
(* Three more structures of the repository have a part of their own: BST,  *)
(* the unbalanced tree that is driven in step with the RedBlackBST         *)
(* (SpecEquiv); BinarySearchST, the sorted-array table (SpecST); and       *)
(* Queue, the linked list shared by several goroutines (SpecQueue).  Each  *)
(* specification drives one part and leaves the others as constructed.    *)
(***************************************************************************)
EXTENDS Integers, FiniteSets, Sequences, TLC

VARIABLES root, prevRoot, lastOp, lastKey, lastVal, lastErr

(* The unbalanced BST (src/unnamed/part_000) that is given the same calls  *)
(* as the RedBlackBST in SpecEquiv, and the error its last call returned.  *)
VARIABLES bst, bstErr

(* BinarySearchST (src/search/binary_search.go): the arrays keys and vals, *)
(* functions on 0..cap-1, the number of pairs n, and the outcome of the    *)
(* last call.                                                              *)
VARIABLES stKeys, stVals, stN, stErr

(* Queue (src/unnamed/part_003) used by several goroutines: the fields     *)
(* first, last and size, the nodes allocated so far (a node is its index,  *)
(* 0 is nil), the holder of the lock (0 when free), each goroutine's       *)
(* position and the value of queue.first it saw in Peek, the items Dequeue *)
(* has returned, what the last Peek returned, and whether a call has       *)
(* dereferenced nil.                                                       *)
VARIABLES qFirst, qLast, qSize, qNodes, qLock, qPc, qSeen, qDequeued, qPeek,
          qPanic

treeVars == <<root, prevRoot, lastOp, lastKey, lastVal, lastErr>>
bstVars == <<bst, bstErr>>
stVars == <<stKeys, stVals, stN, stErr>>
queueVars == <<qFirst, qLast, qSize, qNodes, qLock, qPc, qSeen, qDequeued, qPeek,
               qPanic>>

vars == <<treeVars, bstVars, stVars, queueVars>>

(* ------------------------------ bounds -------------------------------- *)

MaxKey == 5
MaxVal == 2

KeySet == 1..MaxKey

(* keys of the tables the queries are asked of in SpecQuery; arguments of   *)
(* the queries: those keys and one value on either side of them            *)
MaxQueryKey == 5
QueryKeySet == 1..MaxQueryKey
ArgSet == 0..(MaxQueryKey + 1)
ValSet == 1..MaxVal

(* the goroutines that share the Queue in SpecQueue *)
MaxGoroutines == 2
Goroutines == 1..MaxGoroutines

(* keys of the taller trees of SpecTall, which all carry the same value *)
MaxTallKey == 9
TallKeySet == 1..MaxTallKey

(* --------------------------- representation --------------------------- *)

red == TRUE
black == FALSE

Nil == [kind |-> "nil"]
Panic == [kind |-> "panic"]

IsNode(node) == node.kind = "node"

NewNode(key, val) ==
  [kind |-> "node", key |-> key, val |-> val, left |-> Nil, right |-> Nil,
   color |-> red, size |-> 1]

ErrNone == "nil"
ErrAbsentKey == "key is absent"
ErrEmptySymbolTable == "symbol table is empty"
ErrInvalidRank == "rank is out of range"
ErrTooSmallFloorKey == "key to floor is too small"
ErrTooLargeCeilingKey == "key to ceiling is too large"
ErrEmptyQueue == "queue is empty"
ErrPanic == "panic"

compare(a, b) == IF a < b THEN -1 ELSE IF a > b THEN 1 ELSE 0

size(node) == IF node.kind = "nil" THEN 0 ELSE node.size

isRed(node) == IF node.kind = "nil" THEN FALSE ELSE node.color = red

(* node.left = sub / node.right = sub, where sub is the result of a call   *)
(* that may have panicked.                                                 *)
setLeft(node, sub) ==
  IF ~IsNode(node) \/ sub.kind = "panic" THEN Panic
  ELSE [node EXCEPT !.left = sub]

setRight(node, sub) ==
  IF ~IsNode(node) \/ sub.kind = "panic" THEN Panic
  ELSE [node EXCEPT !.right = sub]

(* ------------------------------- get ---------------------------------- *)

RECURSIVE get(_, _)
get(node, key) ==
  IF node.kind = "nil" THEN [val |-> 0, err |-> ErrAbsentKey]
  ELSE LET cmp == compare(key, node.key)
       IN IF cmp < 0 THEN get(node.left, key)
          ELSE IF cmp > 0 THEN get(node.right, key)
          ELSE [val |-> node.val, err |-> ErrNone]

Get(r, key) == get(r, key)

Contains(r, key) == Get(r, key).err = ErrNone

Size(r) == size(r)

IsEmpty(r) == Size(r) = 0

(* ---------------------- rotations and colour flips -------------------- *)

rotateRight(node) ==
  IF ~IsNode(node) THEN Panic
  ELSE IF ~IsNode(node.left) THEN Panic
  ELSE LET x == node.left
           n1 == [node EXCEPT !.left = x.right, !.color = red]
           n2 == [n1 EXCEPT !.size = 1 + size(n1.left) + size(n1.right)]
       IN [x EXCEPT !.right = n2, !.color = node.color, !.size = node.size]

(* rotateLeft without "node.size = 1 + size(left) + size(right)" *)
rotateLeft_staleSize(node) ==
  IF ~IsNode(node) THEN Panic
  ELSE IF ~IsNode(node.right) THEN Panic
  ELSE LET x == node.right
           n1 == [node EXCEPT !.right = x.left, !.color = red]
       IN [x EXCEPT !.left = n1, !.color = node.color, !.size = node.size]

rotateLeft(node) ==
  IF ~IsNode(node) THEN Panic
  ELSE IF ~IsNode(node.right) THEN Panic
  ELSE LET x == node.right
           n1 == [node EXCEPT !.right = x.left, !.color = red]
           n2 == [n1 EXCEPT !.size = 1 + size(n1.left) + size(n1.right)]
       IN [x EXCEPT !.left = n2, !.color = node.color, !.size = node.size]

flipColors(node) ==
  IF ~IsNode(node) THEN Panic
  ELSE IF ~IsNode(node.left) \/ ~IsNode(node.right) THEN Panic
  ELSE [node EXCEPT !.color = ~@, !.left.color = ~@, !.right.color = ~@]

moveRedLeft(node) ==
  LET n1 == flipColors(node)
  IN IF ~IsNode(n1) THEN Panic
     ELSE IF isRed(n1.right.left)
          THEN flipColors(rotateLeft(setRight(n1, rotateRight(n1.right))))
          ELSE n1

moveRedRight(node) ==
  LET n1 == flipColors(node)
  IN IF ~IsNode(n1) THEN Panic
     ELSE IF isRed(n1.left.left)
          THEN flipColors(rotateRight(n1))
          ELSE n1

(* balance without the left rotation of a right-leaning red link *)
balance_noRotateLeft(node) ==
  IF ~IsNode(node) THEN Panic
  ELSE LET n2 == IF isRed(node.left) /\ isRed(node.left.left)
                 THEN rotateRight(node) ELSE node
           n3 == IF isRed(n2.left) /\ isRed(n2.right)
                 THEN flipColors(n2) ELSE n2
       IN [n3 EXCEPT !.size = 1 + size(n3.left) + size(n3.right)]

(* balance that only recomputes size: no rotation, no colour flip *)
balance_sizeOnly(node) ==
  IF ~IsNode(node) THEN Panic
  ELSE [node EXCEPT !.size = 1 + size(node.left) + size(node.right)]

(* balance without the colour flip of a node with two red children *)
balance_noFlip(node) ==
  IF ~IsNode(node) THEN Panic
  ELSE LET n1 == IF isRed(node.right) /\ ~isRed(node.left)
                 THEN rotateLeft(node) ELSE node
           n2 == IF isRed(n1.left) /\ isRed(n1.left.left)
                 THEN rotateRight(n1) ELSE n1
       IN [n2 EXCEPT !.size = 1 + size(n2.left) + size(n2.right)]

(* balance without the final recomputation of size *)
balance_noSize(node) ==
  IF ~IsNode(node) THEN Panic
  ELSE LET n1 == IF isRed(node.right) /\ ~isRed(node.left)
                 THEN rotateLeft(node) ELSE node
           n2 == IF isRed(n1.left) /\ isRed(n1.left.left)
                 THEN rotateRight(n1) ELSE n1
       IN IF isRed(n2.left) /\ isRed(n2.right) THEN flipColors(n2) ELSE n2

balance(node) ==
  IF ~IsNode(node) THEN Panic
  ELSE LET n1 == IF isRed(node.right) /\ ~isRed(node.left)
                 THEN rotateLeft(node) ELSE node
           n2 == IF isRed(n1.left) /\ isRed(n1.left.left)
                 THEN rotateRight(n1) ELSE n1
           n3 == IF isRed(n2.left) /\ isRed(n2.right)
                 THEN flipColors(n2) ELSE n2
       IN [n3 EXCEPT !.size = 1 + size(n3.left) + size(n3.right)]

(* ------------------------------- put ---------------------------------- *)

RECURSIVE put(_, _, _)

(* put with the arguments of compare exchanged *)
put_swappedCompare(node, key, val) ==
  IF node.kind = "nil" THEN NewNode(key, val)
  ELSE LET cmp == compare(node.key, key)
       IN IF cmp < 0 THEN balance(setLeft(node, put(node.left, key, val)))
          ELSE IF cmp > 0 THEN balance(setRight(node, put(node.right, key, val)))
          ELSE balance([node EXCEPT !.val = val])

(* put that keeps the old value of a key already present *)
put_noOverwrite(node, key, val) ==
  IF node.kind = "nil" THEN NewNode(key, val)
  ELSE LET cmp == compare(key, node.key)
       IN IF cmp < 0 THEN balance(setLeft(node, put(node.left, key, val)))
          ELSE IF cmp > 0 THEN balance(setRight(node, put(node.right, key, val)))
          ELSE balance(node)

put(node, key, val) ==
  IF node.kind = "nil" THEN NewNode(key, val)
  ELSE LET cmp == compare(key, node.key)
       IN IF cmp < 0 THEN balance(setLeft(node, put(node.left, key, val)))
          ELSE IF cmp > 0 THEN balance(setRight(node, put(node.right, key, val)))
          ELSE balance([node EXCEPT !.val = val])

(* Result of a public mutating call: the new root and the returned error.  *)
(* A panic unwinds the call; the table is then not used again.             *)
Outcome(old, new, err) ==
  IF new.kind = "panic" THEN [root |-> old, err |-> ErrPanic]
  ELSE [root |-> new, err |-> err]

(* Put without "b.root.color = black" *)
PutOp_noBlackRoot(r, key, val) ==
  Outcome(r, put(r, key, val), ErrNone)

PutOp(r, key, val) ==
  LET r1 == put(r, key, val)
  IN IF ~IsNode(r1) THEN Outcome(r, Panic, ErrNone)
     ELSE Outcome(r, [r1 EXCEPT !.color = black], ErrNone)

(* ---------------------------- min and max ----------------------------- *)

RECURSIVE min(_)
min(node) ==
  IF ~IsNode(node) THEN Panic
  ELSE IF node.left.kind = "nil" THEN node
  ELSE min(node.left)

RECURSIVE max(_)
max(node) ==
  IF ~IsNode(node) THEN Panic
  ELSE IF node.right.kind = "nil" THEN node
  ELSE max(node.right)

Min(r) ==
  IF IsEmpty(r) THEN [key |-> 0, err |-> ErrEmptySymbolTable]
  ELSE IF ~IsNode(min(r)) THEN [key |-> 0, err |-> ErrPanic]
  ELSE [key |-> min(r).key, err |-> ErrNone]

Max(r) ==
  IF IsEmpty(r) THEN [key |-> 0, err |-> ErrEmptySymbolTable]
  ELSE IF ~IsNode(max(r)) THEN [key |-> 0, err |-> ErrPanic]
  ELSE [key |-> max(r).key, err |-> ErrNone]

(* ------------------------- delMin and delMax -------------------------- *)

RECURSIVE delMin(_)

(* delMin that returns the leftmost node instead of removing it *)
delMin_keepsNode(node) ==
  IF ~IsNode(node) THEN Panic
  ELSE IF node.left.kind = "nil" THEN node
  ELSE LET n1 == IF ~isRed(node.left) /\ ~isRed(node.left.left)
                 THEN moveRedLeft(node) ELSE node
       IN IF ~IsNode(n1) THEN Panic
          ELSE balance(setLeft(n1, delMin(n1.left)))

delMin(node) ==
  IF ~IsNode(node) THEN Panic
  ELSE IF node.left.kind = "nil" THEN Nil
  ELSE LET n1 == IF ~isRed(node.left) /\ ~isRed(node.left.left)
                 THEN moveRedLeft(node) ELSE node
       IN IF ~IsNode(n1) THEN Panic
          ELSE balance(setLeft(n1, delMin(n1.left)))

(* the root is never set to red *)
RootToRed_never(r) ==
  IF ~IsNode(r) THEN Panic ELSE r

(* if both children of root are black, set root to red *)
RootToRed(r) ==
  IF ~IsNode(r) THEN Panic
  ELSE IF ~isRed(r.left) /\ ~isRed(r.right) THEN [r EXCEPT !.color = red]
  ELSE r

(* if !b.IsEmpty() { b.root.color = black } *)
RootToBlack(r) ==
  IF IsEmpty(r) THEN r
  ELSE IF ~IsNode(r) THEN Panic
  ELSE [r EXCEPT !.color = black]

(* DelMin without the test for an empty table *)
DelMinOp_noEmptyCheck(r) ==
  LET r1 == delMin(RootToRed(r))
  IN IF r1.kind = "panic" THEN Outcome(r, Panic, ErrNone)
     ELSE Outcome(r, RootToBlack(r1), ErrNone)

DelMinOp(r) ==
  IF IsEmpty(r) THEN [root |-> r, err |-> ErrEmptySymbolTable]
  ELSE LET r1 == delMin(RootToRed(r))
       IN IF r1.kind = "panic" THEN Outcome(r, Panic, ErrNone)
          ELSE Outcome(r, RootToBlack(r1), ErrNone)

RECURSIVE delMax(_)

(* delMax without the right rotation of a red left link *)
delMax_noRotateRight(node) ==
  IF ~IsNode(node) THEN Panic
  ELSE IF node.right.kind = "nil" THEN Nil
  ELSE LET n2 == IF ~isRed(node.right) /\ ~isRed(node.right.left)
                 THEN moveRedRight(node) ELSE node
       IN IF ~IsNode(n2) THEN Panic
          ELSE balance(setRight(n2, delMax(n2.right)))

delMax(node) ==
  IF ~IsNode(node) THEN Panic
  ELSE LET n1 == IF isRed(node.left) THEN rotateRight(node) ELSE node
       IN IF ~IsNode(n1) THEN Panic
          ELSE IF n1.right.kind = "nil" THEN Nil
          ELSE LET n2 == IF ~isRed(n1.right) /\ ~isRed(n1.right.left)
                         THEN moveRedRight(n1) ELSE n1
               IN IF ~IsNode(n2) THEN Panic
                  ELSE balance(setRight(n2, delMax(n2.right)))

DelMaxOp(r) ==
  IF IsEmpty(r) THEN [root |-> r, err |-> ErrEmptySymbolTable]
  ELSE LET r1 == delMax(RootToRed(r))
       IN IF r1.kind = "panic" THEN Outcome(r, Panic, ErrNone)
          ELSE Outcome(r, RootToBlack(r1), ErrNone)

(* ------------------------------ delete -------------------------------- *)

(* the successor's key is adopted, its value is not *)
adoptSuccessor_keyOnly(node) ==
  LET x == min(node.right)
  IN IF ~IsNode(x) THEN Panic
     ELSE setRight([node EXCEPT !.key = x.key], delMin(node.right))

(* node.key = x.key; node.val = x.val; node.right = delMin(node.right)     *)
(* with x = min(node.right)                                                *)
adoptSuccessor(node) ==
  LET x == min(node.right)
  IN IF ~IsNode(x) THEN Panic
     ELSE setRight([node EXCEPT !.key = x.key, !.val = x.val],
                   delMin(node.right))

RECURSIVE delete(_, _)
delete(node, key) ==
  IF ~IsNode(node) THEN Panic
  ELSE IF compare(key, node.key) < 0
  THEN LET n1 == IF isRed(node.left) THEN node
                 ELSE IF ~IsNode(node.left) THEN Panic
                 ELSE IF ~isRed(node.left.left) THEN moveRedLeft(node)
                 ELSE node
       IN IF ~IsNode(n1) THEN Panic
          ELSE balance(setLeft(n1, delete(n1.left, key)))
  ELSE LET n1 == IF isRed(node.left) THEN rotateRight(node) ELSE node
       IN IF ~IsNode(n1) THEN Panic
          ELSE IF compare(key, n1.key) = 0 /\ n1.right.kind = "nil" THEN Nil
          ELSE LET n2 == IF isRed(n1.right) THEN n1
                         ELSE IF ~IsNode(n1.right) THEN Panic
                         ELSE IF ~isRed(n1.right.left) THEN moveRedRight(n1)
                         ELSE n1
               IN IF ~IsNode(n2) THEN Panic
                  ELSE IF compare(key, n2.key) = 0
                       THEN balance(adoptSuccessor(n2))
                       ELSE balance(setRight(n2, delete(n2.right, key)))

(* Delete without the test that the key is present *)
DeleteOp_noContains(r, key) ==
  Outcome(r, delete(RootToRed(r), key), ErrNone)

(* Delete that colours the root before it looks the key up *)
DeleteOp_lateCheck(r, key) ==
  IF ~IsNode(r) THEN [root |-> r, err |-> ErrAbsentKey]
  ELSE IF ~Contains(r, key) THEN [root |-> RootToRed(r), err |-> ErrAbsentKey]
  ELSE Outcome(r, delete(RootToRed(r), key), ErrNone)

DeleteOp(r, key) ==
  IF ~Contains(r, key) THEN [root |-> r, err |-> ErrAbsentKey]
  ELSE Outcome(r, delete(RootToRed(r), key), ErrNone)

(* ------------------------- floor and ceiling -------------------------- *)

RECURSIVE floor(_, _)

(* floor that keeps the node at which it turned right and ignores the      *)
(* right subtree                                                           *)
floor_noRight(node, key) ==
  IF node.kind = "nil" THEN [node |-> Nil, err |-> ErrTooSmallFloorKey]
  ELSE LET cmp == compare(key, node.key)
       IN IF cmp = 0 THEN [node |-> node, err |-> ErrNone]
          ELSE IF cmp < 0 THEN floor(node.left, key)
          ELSE [node |-> node, err |-> ErrNone]

floor(node, key) ==
  IF node.kind = "nil" THEN [node |-> Nil, err |-> ErrTooSmallFloorKey]
  ELSE LET cmp == compare(key, node.key)
       IN IF cmp = 0 THEN [node |-> node, err |-> ErrNone]
          ELSE IF cmp < 0 THEN floor(node.left, key)
          ELSE IF floor(node.right, key).err = ErrNone
               THEN floor(node.right, key)
               ELSE [node |-> node, err |-> ErrNone]

Floor(r, key) ==
  IF floor(r, key).err # ErrNone
  THEN [key |-> key, err |-> floor(r, key).err]
  ELSE [key |-> floor(r, key).node.key, err |-> ErrNone]

RECURSIVE ceiling(_, _)
ceiling(node, key) ==
  IF node.kind = "nil" THEN [node |-> Nil, err |-> ErrTooLargeCeilingKey]
  ELSE LET cmp == compare(key, node.key)
       IN IF cmp = 0 THEN [node |-> node, err |-> ErrNone]
          ELSE IF cmp > 0 THEN ceiling(node.right, key)
          ELSE IF ceiling(node.left, key).err = ErrNone
               THEN ceiling(node.left, key)
               ELSE [node |-> node, err |-> ErrNone]

Ceiling(r, key) ==
  IF ceiling(r, key).err # ErrNone
  THEN [key |-> key, err |-> ceiling(r, key).err]
  ELSE [key |-> ceiling(r, key).node.key, err |-> ErrNone]

(* -------------------------- select and rank --------------------------- *)

RECURSIVE selectRecursive(_, _)

(* selectRecursive that goes right with k - leftSize *)
selectRecursive_offByOne(node, k) ==
  IF ~IsNode(node) THEN [key |-> 0, err |-> ErrPanic]
  ELSE LET leftSize == size(node.left)
       IN IF leftSize > k THEN selectRecursive(node.left, k)
          ELSE IF leftSize < k
               THEN selectRecursive(node.right, k - leftSize)
          ELSE [key |-> node.key, err |-> ErrNone]

selectRecursive(node, k) ==
  IF ~IsNode(node) THEN [key |-> 0, err |-> ErrPanic]
  ELSE LET leftSize == size(node.left)
       IN IF leftSize > k THEN selectRecursive(node.left, k)
          ELSE IF leftSize < k
               THEN selectRecursive(node.right, k - leftSize - 1)
          ELSE [key |-> node.key, err |-> ErrNone]

(* Select without the test k >= b.Size() *)
Select_noUpperCheck(r, k) ==
  IF k < 0 THEN [key |-> 0, err |-> ErrInvalidRank]
  ELSE selectRecursive(r, k)

Select(r, k) ==
  IF k < 0 \/ k >= Size(r) THEN [key |-> 0, err |-> ErrInvalidRank]
  ELSE selectRecursive(r, k)

RECURSIVE rank(_, _)

(* rank that does not count the node at which it turns right *)
rank_noNode(node, key) ==
  IF node.kind = "nil" THEN [rank |-> 0, err |-> ErrAbsentKey]
  ELSE LET cmp == compare(key, node.key)
       IN IF cmp < 0 THEN rank(node.left, key)
          ELSE IF cmp > 0
               THEN [rank |-> size(node.left) + rank(node.right, key).rank,
                     err |-> rank(node.right, key).err]
          ELSE [rank |-> size(node.left), err |-> ErrNone]

(* rank that returns 0 along with ErrAbsentKey *)
rank_zeroWhenAbsent(node, key) ==
  IF node.kind = "nil" THEN [rank |-> 0, err |-> ErrAbsentKey]
  ELSE LET cmp == compare(key, node.key)
       IN IF cmp < 0 THEN rank(node.left, key)
          ELSE IF cmp > 0
               THEN IF rank(node.right, key).err # ErrNone
                    THEN [rank |-> 0, err |-> rank(node.right, key).err]
                    ELSE [rank |-> 1 + size(node.left) + rank(node.right, key).rank,
                          err |-> ErrNone]
          ELSE [rank |-> size(node.left), err |-> ErrNone]

rank(node, key) ==
  IF node.kind = "nil" THEN [rank |-> 0, err |-> ErrAbsentKey]
  ELSE LET cmp == compare(key, node.key)
       IN IF cmp < 0 THEN rank(node.left, key)
          ELSE IF cmp > 0
               THEN [rank |-> 1 + size(node.left) + rank(node.right, key).rank,
                     err |-> rank(node.right, key).err]
          ELSE [rank |-> size(node.left), err |-> ErrNone]

Rank(r, key) == rank(r, key)

(* RangeSize that never counts hi itself *)
RangeSize_noHi(r, lo, hi) ==
  IF compare(lo, hi) > 0 THEN 0
  ELSE Rank(r, hi).rank - Rank(r, lo).rank

RangeSize(r, lo, hi) ==
  IF compare(lo, hi) > 0 THEN 0
  ELSE LET hiRank == Rank(r, hi)
           loRank == Rank(r, lo)
           sz == hiRank.rank - loRank.rank
       IN IF hiRank.err = ErrNone THEN sz + 1 ELSE sz

(* ------------------------------ iterators ----------------------------- *)

(* The consumer of an iterator is the callback yield.  calls is the        *)
(* sequence of the pairs yield has been called with so far; the consumer   *)
(* returns false at its stop-th call (and would at any later one), and     *)
(* never when stop = 0.                                                    *)
yield(calls, stop) == stop = 0 \/ Len(calls) < stop

RECURSIVE iterator(_, _, _, _, _)

(* iterator that yields only the keys strictly between lo and hi *)
iterator_exclusive(node, lo, hi, calls, stop) ==
  IF node.kind = "nil" THEN calls
  ELSE LET cmpLo == compare(lo, node.key)
           cmpHi == compare(hi, node.key)
           c1 == IF cmpLo < 0
                 THEN iterator(node.left, lo, hi, calls, stop) ELSE calls
           c2 == Append(c1, <<node.key, node.val>>)
       IN IF cmpLo < 0 /\ cmpHi > 0
          THEN IF ~yield(c2, stop) THEN c2
               ELSE IF cmpHi > 0
                    THEN iterator(node.right, lo, hi, c2, stop) ELSE c2
          ELSE IF cmpHi > 0
               THEN iterator(node.right, lo, hi, c1, stop) ELSE c1

(* The result is the sequence of calls of yield made once the call on node *)
(* has returned.  The recursive calls return nothing, so a caller cannot   *)
(* tell whether yield has returned false inside them.                      *)
iterator(node, lo, hi, calls, stop) ==
  IF node.kind = "nil" THEN calls
  ELSE LET cmpLo == compare(lo, node.key)
           cmpHi == compare(hi, node.key)
           c1 == IF cmpLo < 0
                 THEN iterator(node.left, lo, hi, calls, stop) ELSE calls
           c2 == Append(c1, <<node.key, node.val>>)
       IN IF cmpLo <= 0 /\ cmpHi >= 0
          THEN IF ~yield(c2, stop) THEN c2
               ELSE IF cmpHi > 0
                    THEN iterator(node.right, lo, hi, c2, stop) ELSE c2
          ELSE IF cmpHi > 0
               THEN iterator(node.right, lo, hi, c1, stop) ELSE c1

Iterator(r, stop) ==
  IF Min(r).err # ErrNone THEN <<>>
  ELSE iterator(r, Min(r).key, Max(r).key, <<>>, stop)

RangeIterator(r, lo, hi, stop) ==
  IF compare(lo, hi) > 0 THEN <<>>
  ELSE iterator(r, lo, hi, <<>>, stop)

(* -------------------------------- Spec -------------------------------- *)

(* NewRedBlackBST *)
TreeInit ==
  /\ root = Nil
  /\ prevRoot = Nil
  /\ lastOp = "New"
  /\ lastKey = 0
  /\ lastVal = 0
  /\ lastErr = ErrNone

(* NewBST *)
BSTInit ==
  /\ bst = Nil
  /\ bstErr = ErrNone

(* NewBinarySearchST(capacity) *)
STInit(capacity) ==
  /\ stKeys = [i \in 0..(capacity - 1) |-> 0]
  /\ stVals = [i \in 0..(capacity - 1) |-> 0]
  /\ stN = 0
  /\ stErr = ErrNone

(* NewQueue, and no goroutine inside a call *)
QueueInit ==
  /\ qFirst = 0
  /\ qLast = 0
  /\ qSize = 0
  /\ qNodes = <<>>
  /\ qLock = 0
  /\ qPc = [g \in Goroutines |-> "idle"]
  /\ qSeen = [g \in Goroutines |-> 0]
  /\ qDequeued = <<>>
  /\ qPeek = [item |-> 0, err |-> ErrNone, dequeued |-> FALSE]
  /\ qPanic = FALSE

Init ==
  /\ TreeInit
  /\ BSTInit
  /\ STInit(0)
  /\ QueueInit

RecordTree(op, key, val, out) ==
  /\ prevRoot' = root
  /\ lastOp' = op
  /\ lastKey' = key
  /\ lastVal' = val
  /\ root' = out.root
  /\ lastErr' = out.err

(* a call on the RedBlackBST; the other structures are not touched *)
Record(op, key, val, out) ==
  /\ RecordTree(op, key, val, out)
  /\ UNCHANGED <<bstVars, stVars, queueVars>>

Put ==
  /\ lastErr # ErrPanic
  /\ \E key \in KeySet, val \in ValSet :
       Record("Put", key, val, PutOp(root, key, val))

DelMin ==
  /\ lastErr # ErrPanic
  /\ Record("DelMin", 0, 0, DelMinOp(root))

DelMax ==
  /\ lastErr # ErrPanic
  /\ Record("DelMax", 0, 0, DelMaxOp(root))

Delete ==
  /\ lastErr # ErrPanic
  /\ \E key \in KeySet :
       Record("Delete", key, 0, DeleteOp(root, key))

Next ==
  \/ Put
  \/ DelMin
  \/ DelMax
  \/ Delete

Spec == Init /\ [][Next]_vars

(* The same table with more keys and a single value: taller trees.         *)
PutTall ==
  /\ lastErr # ErrPanic
  /\ \E key \in TallKeySet :
       Record("Put", key, 1, PutOp(root, key, 1))

DeleteTall ==
  /\ lastErr # ErrPanic
  /\ \E key \in TallKeySet :
       Record("Delete", key, 0, DeleteOp(root, key))

NextTall ==
  \/ PutTall
  \/ DelMin
  \/ DelMax
  \/ DeleteTall

SpecTall == Init /\ [][NextTall]_vars

(* The table the queries (Rank, Select, Floor, Ceiling, RangeSize and the  *)
(* iterators) are asked of: two distinct values tell the values of two     *)
(* keys apart.                                                             *)
PutQuery ==
  /\ lastErr # ErrPanic
  /\ \E key \in QueryKeySet, val \in {1, 2} :
       Record("Put", key, val, PutOp(root, key, val))

DeleteQuery ==
  /\ lastErr # ErrPanic
  /\ \E key \in QueryKeySet :
       Record("Delete", key, 0, DeleteOp(root, key))

NextQuery ==
  \/ PutQuery
  \/ DelMin
  \/ DelMax
  \/ DeleteQuery

SpecQuery == Init /\ [][NextQuery]_vars

(* ------------------- what a caller can observe of a tree -------------- *)

RECURSIVE Keys(_)
Keys(node) ==
  IF ~IsNode(node) THEN {}
  ELSE {node.key} \cup Keys(node.left) \cup Keys(node.right)

RECURSIVE Pairs(_)
Pairs(node) ==
  IF ~IsNode(node) THEN {}
  ELSE {<<node.key, node.val>>} \cup Pairs(node.left) \cup Pairs(node.right)

RECURSIVE NodeCount(_)
NodeCount(node) ==
  IF ~IsNode(node) THEN 0
  ELSE 1 + NodeCount(node.left) + NodeCount(node.right)

RECURSIVE NoRedRight(_)
NoRedRight(node) ==
  \/ ~IsNode(node)
  \/ /\ ~isRed(node.right)
     /\ NoRedRight(node.left)
     /\ NoRedRight(node.right)

RECURSIVE NoRedRedLeft(_)
NoRedRedLeft(node) ==
  \/ ~IsNode(node)
  \/ /\ ~(isRed(node) /\ isRed(node.left))
     /\ NoRedRedLeft(node.left)
     /\ NoRedRedLeft(node.right)

(* the numbers of black links crossed on the paths from node to a nil child *)
RECURSIVE BlackHeights(_)
BlackHeights(node) ==
  IF ~IsNode(node) THEN {0}
  ELSE {h + (IF isRed(node.left) THEN 0 ELSE 1) : h \in BlackHeights(node.left)}
       \cup
       {h + (IF isRed(node.right) THEN 0 ELSE 1) : h \in BlackHeights(node.right)}

RECURSIVE IsBST(_)
IsBST(node) ==
  \/ ~IsNode(node)
  \/ /\ \A k \in Keys(node.left) : compare(k, node.key) < 0
     /\ \A k \in Keys(node.right) : compare(k, node.key) > 0
     /\ IsBST(node.left)
     /\ IsBST(node.right)

RECURSIVE SizeConsistent(_)
SizeConsistent(node) ==
  \/ ~IsNode(node)
  \/ /\ node.size = 1 + size(node.left) + size(node.right)
     /\ SizeConsistent(node.left)
     /\ SizeConsistent(node.right)

RECURSIVE HasRed(_)
HasRed(node) ==
  /\ IsNode(node)
  /\ (isRed(node) \/ HasRed(node.left) \/ HasRed(node.right))

Removal == {"Delete", "DelMin", "DelMax"}

(* ------------------------------ claims -------------------------------- *)

(* C1: after any sequence of Put, Delete, DelMin and DelMax calls no node  *)
(* has a red right child, no red node has a red left child, and every path *)
(* from the root to a nil child crosses the same number of black links.    *)
C1_RedBlackBalance ==
  /\ NoRedRight(root)
  /\ NoRedRedLeft(root)
  /\ Cardinality(BlackHeights(root)) = 1

C1_Witness ==
  /\ lastOp \in Removal
  /\ lastErr = ErrNone
  /\ NodeCount(root) >= 4
  /\ HasRed(root)
  /\ NodeCount(prevRoot) = NodeCount(root) + 1

(* C2: after any sequence of calls every node is in binary-search-tree     *)
(* order: the keys of its left subtree compare less than its key, those of *)
(* its right subtree greater, so no key is stored twice.                   *)
C2_BSTOrder ==
  /\ IsBST(root)
  /\ NodeCount(root) = Cardinality(Keys(root))

C2_Witness ==
  /\ lastOp = "Delete"
  /\ lastErr = ErrNone
  /\ NodeCount(root) >= 4
  /\ IsNode(root.left) /\ IsNode(root.right)
  /\ IsNode(root.left.left)

(* C3: after every public mutating call every node's cached size is        *)
(* 1 + size(left) + size(right), so Size() is the number of keys stored.   *)
C3_SizeConsistency ==
  /\ SizeConsistent(root)
  /\ Size(root) = NodeCount(root)
  /\ Size(root) = Cardinality(Keys(root))

C3_Witness ==
  /\ lastOp \in Removal
  /\ lastErr = ErrNone
  /\ Size(root) = MaxKey - 1
  /\ Size(prevRoot) = MaxKey

(* C4: after every successful Delete that leaves the table non-empty the   *)
(* root's colour is black.                                                 *)
C4_DeleteRootBlack ==
  (lastOp = "Delete" /\ lastErr = ErrNone /\ IsNode(root))
    => root.color = black

(* C5: after every Put, and after every successful DelMin or DelMax that   *)
(* leaves the table non-empty, the root's colour is black, whatever the    *)
(* root's colour was before the call.                                      *)
C5_RootBlack ==
  /\ lastOp = "Put" => (IsNode(root) /\ root.color = black)
  /\ (lastOp \in {"DelMin", "DelMax"} /\ lastErr = ErrNone /\ IsNode(root))
       => root.color = black

C5_Witness ==
  /\ lastOp \in {"Put", "DelMin", "DelMax"}
  /\ lastErr = ErrNone
  /\ isRed(prevRoot)
  /\ IsNode(root)

(* C6: Delete(key) with a key that is not present, also on an empty table, *)
(* returns ErrAbsentKey and leaves the tree unchanged: same nodes, links,  *)
(* colours, sizes, keys and values.                                        *)
C6_FailedDeleteNoOp ==
  /\ (lastOp = "Delete" /\ lastKey \notin Keys(prevRoot))
       => (lastErr = ErrAbsentKey /\ root = prevRoot)
  /\ (lastOp = "Delete" /\ lastErr = ErrAbsentKey)
       => (lastKey \notin Keys(prevRoot) /\ root = prevRoot)

C6_Witness ==
  /\ lastOp = "Delete"
  /\ lastErr = ErrAbsentKey
  /\ NodeCount(prevRoot) >= 3
  /\ ~isRed(prevRoot.left) /\ ~isRed(prevRoot.right)

(* C7: Delete(key) with a present key returns nil and removes exactly that *)
(* key: every other key keeps its value, Size() decreases by exactly 1 and *)
(* Get(key) then returns ErrAbsentKey.                                     *)
C7_DeleteRemovesKey ==
  (lastOp = "Delete" /\ lastKey \in Keys(prevRoot))
    => /\ lastErr = ErrNone
       /\ Keys(root) = Keys(prevRoot) \ {lastKey}
       /\ Pairs(root) = {p \in Pairs(prevRoot) : p[1] # lastKey}
       /\ \A k \in Keys(root) : Get(root, k) = Get(prevRoot, k)
       /\ Size(root) = Size(prevRoot) - 1
       /\ Get(root, lastKey).err = ErrAbsentKey

(* the deleted node had two children and adopted its successor *)
C7_Witness ==
  /\ lastOp = "Delete"
  /\ lastErr = ErrNone
  /\ IsNode(prevRoot)
  /\ prevRoot.key = lastKey
  /\ IsNode(prevRoot.left) /\ IsNode(prevRoot.right)
  /\ IsNode(prevRoot.right.left)

LeastKey(S) == CHOOSE k \in S : \A j \in S : compare(k, j) <= 0
GreatestKey(S) == CHOOSE k \in S : \A j \in S : compare(k, j) >= 0

(* C8: DelMin on a non-empty table removes exactly the smallest key, the   *)
(* key Min() returned just before, DelMax exactly the largest, the key     *)
(* Max() returned just before; all other keys keep their values and Size() *)
(* decreases by exactly 1.                                                 *)
C8_DelMinDelMax ==
  /\ (lastOp = "DelMin" /\ IsNode(prevRoot))
       => /\ lastErr = ErrNone
          /\ Min(prevRoot) = [key |-> LeastKey(Keys(prevRoot)), err |-> ErrNone]
          /\ Pairs(root) = {p \in Pairs(prevRoot) : p[1] # Min(prevRoot).key}
          /\ NodeCount(root) = NodeCount(prevRoot) - 1
          /\ Size(root) = Size(prevRoot) - 1
  /\ (lastOp = "DelMax" /\ IsNode(prevRoot))
       => /\ lastErr = ErrNone
          /\ Max(prevRoot) = [key |-> GreatestKey(Keys(prevRoot)), err |-> ErrNone]
          /\ Pairs(root) = {p \in Pairs(prevRoot) : p[1] # Max(prevRoot).key}
          /\ NodeCount(root) = NodeCount(prevRoot) - 1
          /\ Size(root) = Size(prevRoot) - 1

C8_Witness ==
  /\ lastOp = "DelMax"
  /\ lastErr = ErrNone
  /\ NodeCount(prevRoot) >= 4
  /\ isRed(prevRoot.left)

(* C9: Put(k, v) followed by Get(k) returns v with no error, whether or    *)
(* not k was present before; Put leaves the value of every other stored    *)
(* key unchanged and removes no key.                                       *)
C9_PutGet ==
  lastOp = "Put"
    => /\ Get(root, lastKey) = [val |-> lastVal, err |-> ErrNone]
       /\ \A k \in Keys(prevRoot) \ {lastKey} : Get(root, k) = Get(prevRoot, k)
       /\ Keys(prevRoot) \subseteq Keys(root)
       /\ \A k \in KeySet \ {lastKey} : Get(root, k) = Get(prevRoot, k)

C9_Witness ==
  /\ lastOp = "Put"
  /\ lastKey \in Keys(prevRoot)
  /\ Get(prevRoot, lastKey).val # lastVal
  /\ NodeCount(prevRoot) >= 3

(* C10: Put(k, v) never increases Size() when k is already present, and    *)
(* increases Size() by exactly 1 when k is absent.                         *)
C10_PutSize ==
  lastOp = "Put"
    => /\ lastKey \in Keys(prevRoot) => Size(root) = Size(prevRoot)
       /\ lastKey \notin Keys(prevRoot) => Size(root) = Size(prevRoot) + 1

C10_Witness ==
  /\ lastOp = "Put"
  /\ lastKey \notin Keys(prevRoot)
  /\ Size(prevRoot) >= 3
  /\ Size(root) = Size(prevRoot) + 1

(* the tree node with the value of key replaced by val and nothing else    *)
(* changed                                                                 *)
RECURSIVE WithVal(_, _, _)
WithVal(node, key, val) ==
  IF ~IsNode(node) THEN node
  ELSE [node EXCEPT !.val = IF node.key = key THEN val ELSE @,
                    !.left = WithVal(node.left, key, val),
                    !.right = WithVal(node.right, key, val)]

(* C11: Put(k, v) with k already present overwrites the value in place and *)
(* changes nothing else: no node is created and no node's colour, links or *)
(* size is changed.                                                        *)
C11_OverwriteInPlace ==
  (lastOp = "Put" /\ lastKey \in Keys(prevRoot))
    => root = WithVal(prevRoot, lastKey, lastVal)

(* C12: once the consumer's yield callback has returned false, Iterator()  *)
(* and RangeIterator(lo, hi) call yield no further time, wherever the      *)
(* consumer stops.                                                         *)
C12_EarlyExit ==
  \A stop \in 1..MaxQueryKey :
    /\ Len(Iterator(root, stop)) <= stop
    /\ \A lo, hi \in ArgSet : Len(RangeIterator(root, lo, hi, stop)) <= stop

Ascending(s) == \A i, j \in 1..Len(s) : i < j => compare(s[i][1], s[j][1]) < 0

Range(s) == {s[i] : i \in 1..Len(s)}

(* C13: Iterator(), consumed to the end, yields every stored pair exactly  *)
(* once in strictly ascending key order, Size() pairs in total;            *)
(* RangeIterator(lo, hi) yields in ascending order, once each, exactly the *)
(* pairs with lo <= key <= hi, and nothing when lo > hi.                   *)
C13_IteratorComplete ==
  /\ Ascending(Iterator(root, 0))
  /\ Range(Iterator(root, 0)) = Pairs(root)
  /\ Len(Iterator(root, 0)) = Size(root)
  /\ \A lo, hi \in ArgSet :
       LET s == RangeIterator(root, lo, hi, 0)
       IN /\ Ascending(s)
          /\ Range(s) = {p \in Pairs(root) : lo <= p[1] /\ p[1] <= hi}
          /\ lo > hi => s = <<>>

C13_Witness ==
  /\ Size(root) >= 4
  /\ lastOp \in Removal
  /\ Len(Iterator(root, 0)) = Size(root)
  /\ \E lo, hi \in ArgSet :
       /\ lo \notin Keys(root)
       /\ hi \notin Keys(root)
       /\ Len(RangeIterator(root, lo, hi, 0)) = 2

(* C14: for every k with 0 <= k < Size(), Rank(Select(k)) = k with no      *)
(* error, and for every stored key, Select(Rank(key)) = key with no error. *)
C14_RankSelectDuality ==
  /\ \A k \in 0..(Size(root) - 1) :
       /\ Select(root, k).err = ErrNone
       /\ Rank(root, Select(root, k).key) = [rank |-> k, err |-> ErrNone]
  /\ \A key \in Keys(root) :
       /\ Rank(root, key).err = ErrNone
       /\ Select(root, Rank(root, key).rank) = [key |-> key, err |-> ErrNone]

C14_Witness ==
  /\ lastOp \in Removal
  /\ Size(root) >= 4
  /\ \E key \in Keys(root) :
       /\ Rank(root, key) = [rank |-> 3, err |-> ErrNone]
       /\ Select(root, 3).key = key
       /\ key # 4

(* C15: Rank(key) returns ErrAbsentKey exactly when key is not stored, and *)
(* otherwise the number of stored keys strictly less than key; Select(k)   *)
(* returns ErrInvalidRank exactly when k < 0 or k >= Size().               *)
C15_RankSelectErrors ==
  /\ \A key \in ArgSet :
       /\ Rank(root, key).err = ErrAbsentKey <=> key \notin Keys(root)
       /\ key \in Keys(root) =>
            Rank(root, key) =
              [rank |-> Cardinality({j \in Keys(root) : compare(j, key) < 0}),
               err |-> ErrNone]
  /\ \A k \in (-1)..(MaxQueryKey + 1) :
       Select(root, k).err = ErrInvalidRank <=> (k < 0 \/ k >= Size(root))

C15_Witness ==
  /\ Size(root) >= 3
  /\ Select(root, Size(root)).err = ErrInvalidRank
  /\ Select(root, Size(root) - 1).err = ErrNone
  /\ \E key \in QueryKeySet :
       /\ key \notin Keys(root)
       /\ Rank(root, key).err = ErrAbsentKey
       /\ Rank(root, key).rank >= 1

(* C16: Floor(key) returns the largest stored key <= key and fails with    *)
(* ErrTooSmallFloorKey exactly when there is none; Ceiling(key) returns    *)
(* the smallest stored key >= key and fails with ErrTooLargeCeilingKey     *)
(* exactly when there is none; both fail on an empty table.                *)
C16_FloorCeiling ==
  \A key \in ArgSet :
    LET below == {j \in Keys(root) : compare(j, key) <= 0}
        above == {j \in Keys(root) : compare(j, key) >= 0}
    IN /\ IF below = {}
          THEN Floor(root, key).err = ErrTooSmallFloorKey
          ELSE Floor(root, key) = [key |-> GreatestKey(below), err |-> ErrNone]
       /\ IF above = {}
          THEN Ceiling(root, key).err = ErrTooLargeCeilingKey
          ELSE Ceiling(root, key) = [key |-> LeastKey(above), err |-> ErrNone]

(* keys {1, 3, 5}: Floor(0) and Ceiling(6) fail, Floor(3) = 3, Ceiling(2) = 3 *)
C16_Witness ==
  /\ Keys(root) = {1, 3, 5}
  /\ Floor(root, 0).err = ErrTooSmallFloorKey
  /\ Ceiling(root, 6).err = ErrTooLargeCeilingKey
  /\ Floor(root, 3).key = 3
  /\ Ceiling(root, 2).key = 3
  /\ Floor(root, 4).key = 3

(* C17: RangeSize(lo, hi) is the number of stored keys k with              *)
(* lo <= k <= hi, whether or not lo and hi are stored, and 0 when lo > hi. *)
C17_RangeSize ==
  \A lo, hi \in ArgSet :
    /\ RangeSize(root, lo, hi) =
         Cardinality({k \in Keys(root) :
                        compare(lo, k) <= 0 /\ compare(k, hi) <= 0})
    /\ compare(lo, hi) > 0 => RangeSize(root, lo, hi) = 0

C17_Witness ==
  /\ Size(root) >= 3
  /\ \E lo, hi \in ArgSet :
       /\ lo \notin Keys(root)
       /\ hi \notin Keys(root)
       /\ RangeSize(root, lo, hi) = 2
       /\ RangeSize(root, lo, hi - 1) = 2

(* C18: for every lo and hi, RangeSize(lo, hi) is the number of pairs that *)
(* RangeIterator(lo, hi) yields when consumed to the end.                  *)
C18_RangeConsistency ==
  \A lo, hi \in ArgSet :
    RangeSize(root, lo, hi) = Len(RangeIterator(root, lo, hi, 0))

C18_Witness ==
  /\ Size(root) >= 4
  /\ \E lo, hi \in QueryKeySet :
       /\ lo \in Keys(root)
       /\ hi \notin Keys(root)
       /\ RangeSize(root, lo, hi) = 3
       /\ Len(RangeIterator(root, lo, hi, 0)) = 3

(* C19: Min, Max, DelMin and DelMax return ErrEmptySymbolTable exactly     *)
(* when the table is empty; a DelMin or DelMax that fails leaves the table *)
(* unchanged: still empty, root nil.                                       *)
C19_EmptyTableErrors ==
  /\ Min(root).err = ErrEmptySymbolTable <=> Keys(root) = {}
  /\ Max(root).err = ErrEmptySymbolTable <=> Keys(root) = {}
  /\ lastOp \in {"DelMin", "DelMax"} =>
       /\ lastErr = ErrEmptySymbolTable <=> Keys(prevRoot) = {}
       /\ lastErr = ErrEmptySymbolTable => (root = prevRoot /\ root = Nil)

C19_Witness ==
  /\ lastOp \in {"DelMin", "DelMax"}
  /\ lastErr = ErrEmptySymbolTable
  /\ root = Nil
  /\ Min(root).err = ErrEmptySymbolTable
  /\ Max(root).err = ErrEmptySymbolTable

(* number of nodes on the longest path from node to a nil child *)
RECURSIVE Height(_)
Height(node) ==
  IF ~IsNode(node) THEN 0
  ELSE 1 + (IF Height(node.left) >= Height(node.right)
            THEN Height(node.left) ELSE Height(node.right))

(* C20: with n stored keys the tree height, the number of nodes on the     *)
(* longest root-to-nil path, is at most 2*log2(n+1); in integers,          *)
(* 2^height <= (n+1)^2.                                                    *)
C20_HeightBound ==
  2 ^ Height(root) <= (Cardinality(Keys(root)) + 1) * (Cardinality(Keys(root)) + 1)

C20_Witness ==
  /\ lastOp \in Removal
  /\ lastErr = ErrNone
  /\ Cardinality(Keys(root)) >= 6
  /\ Height(root) >= 4

(* the table after Put of the keys 1, 2, ..., n in that order *)
RECURSIVE AscendingInsert(_)
AscendingInsert(n) ==
  IF n = 0 THEN Nil ELSE PutOp(AscendingInsert(n - 1), n, 1).root

(* C21: Put of the keys 1, 2, ..., n in that order into an empty table     *)
(* gives Size() = n, an Iterator() sequence of exactly 1..n, and a tree in *)
(* which no red node has a red left child (n = 7 in particular).           *)
C21_AscendingInsert ==
  \A n \in 1..MaxTallKey :
    (lastOp = "Put" /\ lastKey = n /\ prevRoot = AscendingInsert(n - 1))
      => /\ lastErr = ErrNone
         /\ Size(root) = n
         /\ Iterator(root, 0) = [i \in 1..n |-> <<i, 1>>]
         /\ NoRedRedLeft(root)

C21_Witness ==
  /\ lastOp = "Put"
  /\ lastKey = 7
  /\ prevRoot = AscendingInsert(6)
  /\ root = AscendingInsert(7)
  /\ Size(root) = 7

(* C22: every successful DelMin, DelMax or Delete removes one pair, so n   *)
(* of them after Put of n distinct keys leave Size() = 0 and root nil;     *)
(* then Get of any key returns ErrAbsentKey and DelMin and DelMax return   *)
(* ErrEmptySymbolTable.                                                    *)
C22_DeleteToEmpty ==
  (lastOp \in Removal /\ lastErr = ErrNone)
    => /\ NodeCount(root) = NodeCount(prevRoot) - 1
       /\ NodeCount(prevRoot) = 1 =>
            /\ root = Nil
            /\ Size(root) = 0
            /\ \A key \in TallKeySet : Get(root, key).err = ErrAbsentKey
            /\ DelMinOp(root) = [root |-> Nil, err |-> ErrEmptySymbolTable]
            /\ DelMaxOp(root) = [root |-> Nil, err |-> ErrEmptySymbolTable]

C22_Witness ==
  /\ lastOp = "DelMin"
  /\ lastErr = ErrNone
  /\ NodeCount(prevRoot) = 1
  /\ root = Nil

(* the calls of moveRedLeft and moveRedRight made by delMin(node), each    *)
(* with the node it is handed                                              *)
RECURSIVE delMinCalls(_)
delMinCalls(node) ==
  IF ~IsNode(node) THEN {}
  ELSE IF node.left.kind = "nil" THEN {}
  ELSE LET moves == ~isRed(node.left) /\ ~isRed(node.left.left)
           n1 == IF moves THEN moveRedLeft(node) ELSE node
       IN (IF moves THEN {[fn |-> "moveRedLeft", node |-> node]} ELSE {})
          \cup (IF IsNode(n1) THEN delMinCalls(n1.left) ELSE {})

(* the same for delMax(node) *)
RECURSIVE delMaxCalls(_)
delMaxCalls(node) ==
  IF ~IsNode(node) THEN {}
  ELSE LET n1 == IF isRed(node.left) THEN rotateRight(node) ELSE node
       IN IF ~IsNode(n1) THEN {}
          ELSE IF n1.right.kind = "nil" THEN {}
          ELSE LET moves == ~isRed(n1.right) /\ ~isRed(n1.right.left)
                   n2 == IF moves THEN moveRedRight(n1) ELSE n1
               IN (IF moves THEN {[fn |-> "moveRedRight", node |-> n1]} ELSE {})
                  \cup (IF IsNode(n2) THEN delMaxCalls(n2.right) ELSE {})

(* the same for delete(node, key) *)
RECURSIVE deleteCalls(_, _)
deleteCalls(node, key) ==
  IF ~IsNode(node) THEN {}
  ELSE IF compare(key, node.key) < 0
  THEN LET moves == ~isRed(node.left) /\ IsNode(node.left)
                      /\ ~isRed(node.left.left)
           n1 == IF moves THEN moveRedLeft(node) ELSE node
       IN (IF moves THEN {[fn |-> "moveRedLeft", node |-> node]} ELSE {})
          \cup (IF IsNode(n1) /\ IsNode(node.left)
                THEN deleteCalls(n1.left, key) ELSE {})
  ELSE LET n1 == IF isRed(node.left) THEN rotateRight(node) ELSE node
       IN IF ~IsNode(n1) THEN {}
          ELSE IF compare(key, n1.key) = 0 /\ n1.right.kind = "nil" THEN {}
          ELSE LET moves == ~isRed(n1.right) /\ IsNode(n1.right)
                              /\ ~isRed(n1.right.left)
                   n2 == IF moves THEN moveRedRight(n1) ELSE n1
               IN (IF moves THEN {[fn |-> "moveRedRight", node |-> n1]} ELSE {})
                  \cup (IF ~IsNode(n2) \/ ~IsNode(n1.right) THEN {}
                        ELSE IF compare(key, n2.key) = 0
                             THEN delMinCalls(n2.right)
                             ELSE deleteCalls(n2.right, key))

(* the calls made by the removal that led to the current state *)
LastRemovalCalls ==
  IF ~IsNode(prevRoot) THEN {}
  ELSE IF lastOp = "DelMin" THEN delMinCalls(RootToRed(prevRoot))
  ELSE IF lastOp = "DelMax" THEN delMaxCalls(RootToRed(prevRoot))
  ELSE IF lastOp = "Delete" /\ Contains(prevRoot, lastKey)
       THEN deleteCalls(RootToRed(prevRoot), lastKey)
  ELSE {}

(* C23: in every call reachable from DelMin, DelMax or Delete,             *)
(* moveRedLeft(node) is invoked only when node is red and node.left and    *)
(* node.left.left are black, and moveRedRight(node) only when node is red  *)
(* and node.right and node.right.left are black.                           *)
C23_MoveRedPreconditions ==
  \A c \in LastRemovalCalls :
    /\ isRed(c.node)
    /\ c.fn = "moveRedLeft" =>
         /\ ~isRed(c.node.left)
         /\ IsNode(c.node.left) => ~isRed(c.node.left.left)
    /\ c.fn = "moveRedRight" =>
         /\ ~isRed(c.node.right)
         /\ IsNode(c.node.right) => ~isRed(c.node.right.left)

C23_Witness ==
  /\ lastErr = ErrNone
  /\ lastOp = "Delete"
  /\ \E c \in LastRemovalCalls : c.fn = "moveRedLeft" /\ c.node # RootToRed(prevRoot)
  /\ \E c \in LastRemovalCalls : c.fn = "moveRedRight"

(* C25: in every state reachable by Put, Delete, DelMin and DelMax no      *)
(* operation dereferences a nil node.                                      *)
C25_NoNilDereference ==
  lastErr # ErrPanic

C25_Witness ==
  /\ lastErr = ErrNone
  /\ lastOp \in Removal
  /\ Cardinality({c \in LastRemovalCalls : c.fn = "moveRedLeft"}) >= 2
  /\ NodeCount(prevRoot) >= 7

(* C30: Rank(key) returns as its integer the number of stored keys         *)
(* strictly less than key, also when key is absent and the call returns    *)
(* ErrAbsentKey; it is 0 on an empty table.                                *)
C30_RankOfAbsentKey ==
  \A key \in ArgSet :
    /\ Rank(root, key).rank = Cardinality({j \in Keys(root) : j < key})
    /\ Rank(root, key).err = (IF key \in Keys(root) THEN ErrNone ELSE ErrAbsentKey)
    /\ IsEmpty(root) => Rank(root, key) = [rank |-> 0, err |-> ErrAbsentKey]

C30_Witness ==
  /\ NodeCount(root) >= 3
  /\ \E key \in ArgSet :
       /\ Rank(root, key).err = ErrAbsentKey
       /\ Rank(root, key).rank >= 2
       /\ \E j \in Keys(root) : j > key

(* the recursive calls iterator(node, lo, hi) makes when the consumer      *)
(* takes every pair: the key of the calling node, the side it descends to  *)
(* and the key of the child (0 for a nil child)                            *)
RECURSIVE iteratorDescents(_, _, _)

(* a traversal that descends into both subtrees of every node *)
iteratorDescents_noPruning(node, lo, hi) ==
  IF node.kind = "nil" THEN {}
  ELSE {[key |-> node.key, side |-> "left",
         child |-> IF IsNode(node.left) THEN node.left.key ELSE 0]}
       \cup iteratorDescents(node.left, lo, hi)
       \cup {[key |-> node.key, side |-> "right",
              child |-> IF IsNode(node.right) THEN node.right.key ELSE 0]}
       \cup iteratorDescents(node.right, lo, hi)

iteratorDescents(node, lo, hi) ==
  IF node.kind = "nil" THEN {}
  ELSE LET cmpLo == compare(lo, node.key)
           cmpHi == compare(hi, node.key)
       IN (IF cmpLo < 0
           THEN {[key |-> node.key, side |-> "left",
                  child |-> IF IsNode(node.left) THEN node.left.key ELSE 0]}
                \cup iteratorDescents(node.left, lo, hi)
           ELSE {})
          \cup
          (IF cmpHi > 0
           THEN {[key |-> node.key, side |-> "right",
                  child |-> IF IsNode(node.right) THEN node.right.key ELSE 0]}
                \cup iteratorDescents(node.right, lo, hi)
           ELSE {})

(* the keys of the nodes RangeIterator(lo, hi) visits *)
RangeIteratorVisits(r, lo, hi) ==
  IF compare(lo, hi) > 0 \/ ~IsNode(r) THEN {}
  ELSE {r.key} \cup {d.child : d \in {e \in iteratorDescents(r, lo, hi) : e.child # 0}}

(* the keys of the nodes on the search path of key *)
RECURSIVE SearchPath(_, _)
SearchPath(node, key) ==
  IF ~IsNode(node) THEN {}
  ELSE IF compare(key, node.key) < 0 THEN {node.key} \cup SearchPath(node.left, key)
  ELSE IF compare(key, node.key) > 0 THEN {node.key} \cup SearchPath(node.right, key)
  ELSE {node.key}

(* C24: RangeIterator(lo, hi) never visits the left subtree of a node      *)
(* whose key is <= lo nor the right subtree of a node whose key is >= hi,  *)
(* so every node visited is inside [lo, hi] or on the search path of lo or *)
(* of hi.                                                                  *)
C24_RangePruning ==
  \A lo, hi \in ArgSet :
    lo <= hi =>
      /\ \A d \in iteratorDescents(root, lo, hi) :
           /\ d.side = "left" => lo < d.key
           /\ d.side = "right" => d.key < hi
      /\ RangeIteratorVisits(root, lo, hi)
           \subseteq ({k \in Keys(root) : lo <= k /\ k <= hi}
                      \cup SearchPath(root, lo) \cup SearchPath(root, hi))

C24_Witness ==
  /\ NodeCount(root) >= 5
  /\ \E lo, hi \in ArgSet :
       /\ lo <= hi
       /\ RangeIterator(root, lo, hi, 0) # <<>>
       /\ \E k \in RangeIteratorVisits(root, lo, hi) : k < lo \/ k > hi
       /\ Cardinality(Keys(root) \ RangeIteratorVisits(root, lo, hi)) >= 2

(* --------------------------- read-only calls -------------------------- *)

MaxReadKey == 3
MaxStop == 2

ReadKeySet == 1..MaxReadKey
ReadArgSet == 0..(MaxReadKey + 1)

NoArgReads == {"Size", "IsEmpty", "Min", "Max", "Iterator"}
OneArgReads == {"Get", "Contains", "Floor", "Ceiling", "Rank", "Select"}
TwoArgReads == {"RangeSize", "RangeIterator"}
Reads == NoArgReads \cup OneArgReads \cup TwoArgReads
Traversals == {"Iterator", "RangeIterator"}

(* a traversal that removes the pairs it has delivered when it is taken to *)
(* its end                                                                 *)
ReadOp_drains(r, op, a, b, stop) ==
  [root |-> IF op \in Traversals /\ stop = 0 THEN Nil ELSE r,
   err |-> ErrNone]

(* The table a read-only call leaves behind and the error it returns: none *)
(* of these functions assigns to the table or to a node.                   *)
ReadOp(r, op, a, b, stop) ==
  [root |-> r,
   err |-> CASE op = "Get" -> Get(r, a).err
             [] op = "Min" -> Min(r).err
             [] op = "Max" -> Max(r).err
             [] op = "Floor" -> Floor(r, a).err
             [] op = "Ceiling" -> Ceiling(r, a).err
             [] op = "Rank" -> Rank(r, a).err
             [] op = "Select" -> Select(r, a).err
             [] OTHER -> ErrNone]

PutRead ==
  /\ lastErr # ErrPanic
  /\ \E key \in ReadKeySet, val \in {1, 2} :
       Record("Put", key, val, PutOp(root, key, val))

DeleteRead ==
  /\ lastErr # ErrPanic
  /\ \E key \in ReadKeySet :
       Record("Delete", key, 0, DeleteOp(root, key))

Read ==
  /\ lastErr # ErrPanic
  /\ \E op \in Reads :
       \E a \in IF op \in NoArgReads THEN {0} ELSE ReadArgSet :
         \E b \in IF op \in TwoArgReads THEN ReadArgSet ELSE {0} :
           \E stop \in IF op \in Traversals THEN 0..MaxStop ELSE {0} :
             Record(op, a, b, ReadOp(root, op, a, b, stop))

NextRead ==
  \/ PutRead
  \/ DeleteRead
  \/ DelMin
  \/ DelMax
  \/ Read

SpecRead == Init /\ [][NextRead]_vars

MaxEquivKey == 4
EquivKeySet == 1..MaxEquivKey
EquivArgSet == 0..(MaxEquivKey + 1)

NewBSTNode(key, val) ==
  [kind |-> "node", key |-> key, val |-> val, left |-> Nil, right |-> Nil,
   size |-> 1]

(* node.size = 1 + b.size(node.left) + b.size(node.right) *)
bstResize(node) ==
  IF ~IsNode(node) THEN Panic
  ELSE [node EXCEPT !.size = 1 + size(node.left) + size(node.right)]

RECURSIVE bstPut(_, _, _)
bstPut(node, key, val) ==
  IF node.kind = "nil" THEN NewBSTNode(key, val)
  ELSE LET cmp == compare(key, node.key)
       IN IF cmp < 0
          THEN bstResize(setLeft(node, bstPut(node.left, key, val)))
          ELSE IF cmp > 0
          THEN bstResize(setRight(node, bstPut(node.right, key, val)))
          ELSE bstResize([node EXCEPT !.val = val])

BSTPut(r, key, val) == Outcome(r, bstPut(r, key, val), ErrNone)

RECURSIVE bstDelMin(_)
bstDelMin(node) ==
  IF ~IsNode(node) THEN Panic
  ELSE IF node.left.kind = "nil" THEN node.right
  ELSE bstResize(setLeft(node, bstDelMin(node.left)))

BSTDelMin(r) ==
  IF IsEmpty(r) THEN [root |-> r, err |-> ErrEmptySymbolTable]
  ELSE Outcome(r, bstDelMin(r), ErrNone)

RECURSIVE bstDelMax(_)
bstDelMax(node) ==
  IF ~IsNode(node) THEN Panic
  ELSE IF node.right.kind = "nil" THEN node.left
  ELSE bstResize(setRight(node, bstDelMax(node.right)))

BSTDelMax(r) ==
  IF IsEmpty(r) THEN [root |-> r, err |-> ErrEmptySymbolTable]
  ELSE Outcome(r, bstDelMax(r), ErrNone)

RECURSIVE bstDelete(_, _)

(* the node that takes the place of the deleted one is min(node.right),    *)
(* with right = delMin(node.right) and left = node.left                    *)
bstDelete(node, key) ==
  IF node.kind = "nil" THEN [node |-> Nil, err |-> ErrAbsentKey]
  ELSE LET cmp == compare(key, node.key)
       IN IF cmp < 0
          THEN [node |-> bstResize(setLeft(node, bstDelete(node.left, key).node)),
                err |-> bstDelete(node.left, key).err]
          ELSE IF cmp > 0
          THEN [node |-> bstResize(setRight(node, bstDelete(node.right, key).node)),
                err |-> bstDelete(node.right, key).err]
          ELSE IF node.left.kind = "nil" THEN [node |-> node.right, err |-> ErrNone]
          ELSE IF node.right.kind = "nil" THEN [node |-> node.left, err |-> ErrNone]
          ELSE [node |-> bstResize(setLeft(setRight(min(node.right),
                                                    bstDelMin(node.right)),
                                           node.left)),
                err |-> ErrNone]

BSTDelete(r, key) ==
  Outcome(r, bstDelete(r, key).node, bstDelete(r, key).err)

(* the same call on both tables *)
Both(op, out, bstOut) ==
  /\ lastOp' = op
  /\ root' = out.root
  /\ lastErr' = out.err
  /\ bst' = bstOut.root
  /\ bstErr' = bstOut.err
  /\ UNCHANGED <<prevRoot, lastKey, lastVal, stVars, queueVars>>

PutBoth ==
  /\ lastErr # ErrPanic
  /\ \E key \in EquivKeySet, val \in {1, 2} :
       Both("Put", PutOp(root, key, val), BSTPut(bst, key, val))

DeleteBoth ==
  /\ lastErr # ErrPanic
  /\ \E key \in EquivKeySet :
       Both("Delete", DeleteOp(root, key), BSTDelete(bst, key))

DelMinBoth ==
  /\ lastErr # ErrPanic
  /\ Both("DelMin", DelMinOp(root), BSTDelMin(bst))

DelMaxBoth ==
  /\ lastErr # ErrPanic
  /\ Both("DelMax", DelMaxOp(root), BSTDelMax(bst))

NextEquiv ==
  \/ PutBoth
  \/ DeleteBoth
  \/ DelMinBoth
  \/ DelMaxBoth

SpecEquiv == Init /\ [][NextEquiv]_vars

(* what the calls of the OrderedSymbolTable interface that do not change   *)
(* the table return, for every argument; a traversal is observed by a      *)
(* consumer that returns false at its stop-th pair (never, when stop = 0)  *)
Observe(r, stops) ==
  [size |-> Size(r),
   isEmpty |-> IsEmpty(r),
   min |-> Min(r),
   max |-> Max(r),
   get |-> [key \in EquivArgSet |-> Get(r, key)],
   contains |-> [key \in EquivArgSet |-> Contains(r, key)],
   floor |-> [key \in EquivArgSet |-> Floor(r, key)],
   ceiling |-> [key \in EquivArgSet |-> Ceiling(r, key)],
   rank |-> [key \in EquivArgSet |-> Rank(r, key)],
   select |-> [k \in EquivArgSet |-> Select(r, k)],
   rangeSize |-> [lo \in EquivArgSet, hi \in EquivArgSet |-> RangeSize(r, lo, hi)],
   iterator |-> [stop \in stops |-> Iterator(r, stop)],
   rangeIterator |-> [lo \in EquivArgSet, hi \in EquivArgSet, stop \in stops |->
                        RangeIterator(r, lo, hi, stop)]]

(* the two tables agree as long as every traversal is taken to its end *)
EquivalentWhenConsumed ==
  /\ lastErr = bstErr
  /\ Observe(root, {0}) = Observe(bst, {0})

(* C26: the same sequence of Put, Delete, DelMin and DelMax calls on a     *)
(* RedBlackBST and on a BST makes every call return the same error, and    *)
(* afterwards Get, Contains, Size, IsEmpty, Min, Max, Floor, Ceiling,      *)
(* Rank, Select, RangeSize, Iterator and RangeIterator return the same on  *)
(* both for every argument.                                                *)
C26_ObservationalEquivalence ==
  /\ lastErr = bstErr
  /\ Observe(root, 0..MaxStop) = Observe(bst, 0..MaxStop)

(* --------------------------- BinarySearchST --------------------------- *)
(* src/search/binary_search.go.  A table is the record of its fields keys, *)
(* vals and n; panic is set by an index outside an array.  In SpecST the   *)
(* variables lastOp, lastKey and lastVal record the last call on it.       *)

MaxCapacity == 4
MaxSTKey == 3
STKeySet == 1..MaxSTKey

ST == [keys |-> stKeys, vals |-> stVals, n |-> stN, panic |-> FALSE]

(* cap(b.keys) *)
cap(a) == Cardinality(DOMAIN a)

resize(st, capacity) ==
  IF capacity < st.n THEN st
  ELSE IF \E i \in 0..(st.n - 1) : i \notin DOMAIN st.keys
  THEN [st EXCEPT !.panic = TRUE]
  ELSE [st EXCEPT
          !.keys = [i \in 0..(capacity - 1) |-> IF i < st.n THEN st.keys[i] ELSE 0],
          !.vals = [i \in 0..(capacity - 1) |-> IF i < st.n THEN st.vals[i] ELSE 0]]

(* the loop of Rank, from lo and hi on *)
RECURSIVE stRankLoop(_, _, _, _)
stRankLoop(st, key, lo, hi) ==
  IF lo > hi THEN [rank |-> lo, err |-> ErrAbsentKey]
  ELSE LET mid == (lo + hi) \div 2
       IN IF mid \notin DOMAIN st.keys THEN [rank |-> mid, err |-> ErrPanic]
          ELSE LET cmp == compare(key, st.keys[mid])
               IN IF cmp < 0 THEN stRankLoop(st, key, lo, mid - 1)
                  ELSE IF cmp > 0 THEN stRankLoop(st, key, mid + 1, hi)
                  ELSE [rank |-> mid, err |-> ErrNone]

STRank(st, key) == stRankLoop(st, key, 0, st.n - 1)

STGet(st, key) ==
  LET r == STRank(st, key)
  IN IF r.err # ErrNone THEN [val |-> 0, err |-> r.err]
     ELSE IF r.rank \notin DOMAIN st.vals THEN [val |-> 0, err |-> ErrPanic]
     ELSE [val |-> st.vals[r.rank], err |-> ErrNone]

(* for j := b.n; j > i; j-- { keys[j] = keys[j-1]; vals[j] = vals[j-1] } *)
RECURSIVE shiftRight(_, _, _)
shiftRight(st, j, i) ==
  IF st.panic \/ j <= i THEN st
  ELSE IF j \notin DOMAIN st.keys \/ (j - 1) \notin DOMAIN st.keys
  THEN [st EXCEPT !.panic = TRUE]
  ELSE shiftRight([st EXCEPT !.keys[j] = st.keys[j - 1],
                             !.vals[j] = st.vals[j - 1]], j - 1, i)

(* for j := i; j < b.n-1; j++ { keys[j] = keys[j+1]; vals[j] = vals[j+1] } *)
RECURSIVE shiftLeft(_, _)
shiftLeft(st, j) ==
  IF st.panic \/ j >= st.n - 1 THEN st
  ELSE IF j \notin DOMAIN st.keys \/ (j + 1) \notin DOMAIN st.keys
  THEN [st EXCEPT !.panic = TRUE]
  ELSE shiftLeft([st EXCEPT !.keys[j] = st.keys[j + 1],
                            !.vals[j] = st.vals[j + 1]], j + 1)

STPut(st, key, val) ==
  LET r == STRank(st, key)
  IN IF r.err = ErrPanic THEN [st EXCEPT !.panic = TRUE]
     ELSE IF r.err = ErrNone
     THEN IF r.rank \notin DOMAIN st.vals THEN [st EXCEPT !.panic = TRUE]
          ELSE [st EXCEPT !.vals[r.rank] = val]
     ELSE LET s1 == IF st.n = cap(st.keys) THEN resize(st, 2 * st.n) ELSE st
              s2 == shiftRight(s1, s1.n, r.rank)
          IN IF s2.panic THEN s2
             ELSE IF r.rank \notin DOMAIN s2.keys THEN [s2 EXCEPT !.panic = TRUE]
             ELSE [s2 EXCEPT !.keys[r.rank] = key, !.vals[r.rank] = val,
                             !.n = s2.n + 1]

STDelete(st, key) ==
  LET r == STRank(st, key)
  IN IF r.err = ErrPanic THEN [st |-> [st EXCEPT !.panic = TRUE], err |-> ErrPanic]
     ELSE IF r.err # ErrNone THEN [st |-> st, err |-> ErrAbsentKey]
     ELSE LET s1 == shiftLeft(st, r.rank)
              s2 == [s1 EXCEPT !.n = s1.n - 1]
          IN [st |-> IF ~s2.panic /\ s2.n > 0 /\ s2.n = cap(s2.keys) \div 4
                     THEN resize(s2, 2 * s2.n) ELSE s2,
              err |-> ErrNone]

(* the fields after a call, and the error the call returned; a run-time    *)
(* panic ends the program                                                  *)
RecordST(op, key, val, st, err) ==
  /\ lastOp' = op
  /\ lastKey' = key
  /\ lastVal' = val
  /\ stKeys' = st.keys
  /\ stVals' = st.vals
  /\ stN' = st.n
  /\ stErr' = IF st.panic THEN ErrPanic ELSE err
  /\ UNCHANGED <<root, prevRoot, lastErr, bstVars, queueVars>>

PutST ==
  /\ stErr # ErrPanic
  /\ \E key \in STKeySet, val \in {1, 2} :
       RecordST("Put", key, val, STPut(ST, key, val), ErrNone)

DeleteST ==
  /\ stErr # ErrPanic
  /\ \E key \in STKeySet :
       RecordST("Delete", key, 0, STDelete(ST, key).st, STDelete(ST, key).err)

NextST ==
  \/ PutST
  \/ DeleteST

InitST ==
  /\ TreeInit
  /\ BSTInit
  /\ QueueInit
  /\ \E capacity \in 0..MaxCapacity : STInit(capacity)

SpecST == InitST /\ [][NextST]_vars

(* C28: for every initial capacity >= 0 and every sequence of Put and      *)
(* Delete calls, n never exceeds the capacity of keys and vals when an     *)
(* element is written, so Put never indexes outside the arrays and always  *)
(* inserts the pair.                                                       *)
C28_PutWithinCapacity ==
  /\ stErr # ErrPanic
  /\ stN <= cap(stKeys)
  /\ lastOp = "Put" => STGet(ST, lastKey) = [val |-> lastVal, err |-> ErrNone]

(* ------------------------------- Queue -------------------------------- *)
(* src/unnamed/part_003.  Enqueue and Dequeue hold the lock from their     *)
(* first statement to their return; Peek, IsEmpty and Size take no lock.   *)
(* The k-th node allocated carries the item k.                             *)

MaxEnqueue == 3

(* queue.lock.Lock() at the start of Enqueue *)
EnqueueLock ==
  \E g \in Goroutines :
    /\ ~qPanic
    /\ qPc[g] = "idle"
    /\ qLock = 0
    /\ Len(qNodes) < MaxEnqueue
    /\ qLock' = g
    /\ qPc' = [qPc EXCEPT ![g] = "enqueue"]
    /\ UNCHANGED <<qFirst, qLast, qSize, qNodes, qSeen, qDequeued, qPeek, qPanic>>
    /\ UNCHANGED <<treeVars, bstVars, stVars>>

(* the body of Enqueue and the deferred Unlock *)
EnqueueBody ==
  \E g \in Goroutines :
    /\ ~qPanic
    /\ qPc[g] = "enqueue"
    /\ LET oldLast == qLast
           new == Len(qNodes) + 1
           node == [item |-> new, next |-> 0]
       IN /\ qLast' = new
          /\ IF qFirst = 0
             THEN /\ qFirst' = new
                  /\ qNodes' = Append(qNodes, node)
                  /\ qPanic' = FALSE
             ELSE /\ qFirst' = qFirst
                  /\ IF oldLast = 0
                     THEN qNodes' = Append(qNodes, node) /\ qPanic' = TRUE
                     ELSE /\ qNodes' = Append([qNodes EXCEPT ![oldLast].next = new], node)
                          /\ qPanic' = FALSE
          /\ qSize' = qSize + 1
    /\ qLock' = 0
    /\ qPc' = [qPc EXCEPT ![g] = "idle"]
    /\ UNCHANGED <<qSeen, qDequeued, qPeek>>
    /\ UNCHANGED <<treeVars, bstVars, stVars>>

(* queue.lock.Lock() at the start of Dequeue *)
DequeueLock ==
  \E g \in Goroutines :
    /\ ~qPanic
    /\ qPc[g] = "idle"
    /\ qLock = 0
    /\ qLock' = g
    /\ qPc' = [qPc EXCEPT ![g] = "dequeue"]
    /\ UNCHANGED <<qFirst, qLast, qSize, qNodes, qSeen, qDequeued, qPeek, qPanic>>
    /\ UNCHANGED <<treeVars, bstVars, stVars>>

(* the body of Dequeue and the deferred Unlock *)
DequeueBody ==
  \E g \in Goroutines :
    /\ ~qPanic
    /\ qPc[g] = "dequeue"
    /\ IF qFirst = 0
       THEN UNCHANGED <<qFirst, qLast, qSize, qDequeued>>
       ELSE /\ qDequeued' = Append(qDequeued, qNodes[qFirst].item)
            /\ qFirst' = qNodes[qFirst].next
            /\ qLast' = IF qNodes[qFirst].next = 0 THEN 0 ELSE qLast
            /\ qSize' = qSize - 1
    /\ qLock' = 0
    /\ qPc' = [qPc EXCEPT ![g] = "idle"]
    /\ UNCHANGED <<qNodes, qSeen, qPeek, qPanic>>
    /\ UNCHANGED <<treeVars, bstVars, stVars>>

(* "if queue.IsEmpty()" of Peek, without the lock *)
PeekIsEmpty ==
  \E g \in Goroutines :
    /\ ~qPanic
    /\ qPc[g] = "idle"
    /\ IF qFirst = 0
       THEN /\ qPeek' = [item |-> 0, err |-> ErrEmptyQueue, dequeued |-> FALSE]
            /\ UNCHANGED <<qPc, qSeen>>
       ELSE /\ qPc' = [qPc EXCEPT ![g] = "peek"]
            /\ qSeen' = [qSeen EXCEPT ![g] = qFirst]
            /\ UNCHANGED qPeek
    /\ UNCHANGED <<qFirst, qLast, qSize, qNodes, qLock, qDequeued, qPanic>>
    /\ UNCHANGED <<treeVars, bstVars, stVars>>

(* "return queue.first.item, nil" of Peek, without the lock: the read of   *)
(* queue.first races with the writes of Enqueue and Dequeue, and gives the *)
(* field's present value or the value IsEmpty has loaded                   *)
PeekItem ==
  \E g \in Goroutines :
    /\ ~qPanic
    /\ qPc[g] = "peek"
    /\ \E first \in {qFirst, qSeen[g]} :
         IF first = 0
         THEN qPanic' = TRUE /\ UNCHANGED qPeek
         ELSE /\ qPeek' = [item |-> qNodes[first].item, err |-> ErrNone,
                           dequeued |-> qNodes[first].item \in Range(qDequeued)]
              /\ UNCHANGED qPanic
    /\ qPc' = [qPc EXCEPT ![g] = "idle"]
    /\ qSeen' = [qSeen EXCEPT ![g] = 0]
    /\ UNCHANGED <<qFirst, qLast, qSize, qNodes, qLock, qDequeued>>
    /\ UNCHANGED <<treeVars, bstVars, stVars>>

NextQueue ==
  \/ EnqueueLock
  \/ EnqueueBody
  \/ DequeueLock
  \/ DequeueBody
  \/ PeekIsEmpty
  \/ PeekItem

SpecQueue == Init /\ [][NextQueue]_vars

(* the items in the order Enqueue linked them *)
Enqueued == [i \in 1..Len(qNodes) |-> qNodes[i].item]

(* the items of the list that starts at node *)
RECURSIVE QueueItems(_)
QueueItems(node) ==
  IF node = 0 THEN <<>>
  ELSE <<qNodes[node].item>> \o QueueItems(qNodes[node].next)

(* C29: in every interleaving of Enqueue, Dequeue and Peek calls of        *)
(* several goroutines no call dereferences a nil node, a Peek returns      *)
(* ErrEmptyQueue or an item that was enqueued and not yet dequeued, and    *)
(* the items are dequeued in the order they were enqueued, none lost and   *)
(* none returned twice.                                                    *)
C29_ConcurrentQueue ==
  /\ ~qPanic
  /\ ~qPeek.dequeued
  /\ qPeek.err = ErrNone /\ qPeek.item # 0 => qPeek.item \in Range(Enqueued)
  /\ qDequeued = SubSeq(Enqueued, 1, Len(qDequeued))
  /\ qLock = 0 =>
       QueueItems(qFirst) = SubSeq(Enqueued, Len(qDequeued) + 1, Len(Enqueued))

(* the same without what Peek does *)
LockedCallsAreSafe ==
  /\ qDequeued = SubSeq(Enqueued, 1, Len(qDequeued))
  /\ qLock = 0 =>
       /\ QueueItems(qFirst) = SubSeq(Enqueued, Len(qDequeued) + 1, Len(Enqueued))
       /\ qSize = Len(QueueItems(qFirst))

====
